---- MODULE Spec2Model ----
(***************************************************************************)
(* Model of filtro.py (class FiltrarCarpetas): an interactive session that *)
(* asks for a root path, walks its directories, filters them by            *)
(* modification date, lists the result and optionally writes a report.     *)
(*                                                                         *)
(* One action per input() call of the program: the action consumes the     *)
(* answer and runs the code up to the next input() call.                   *)
(* Dates are records [a, m, d] (year, month, day) as datetime.date.        *)
(* Date strings typed by the user are sequences of one-character strings.  *)
(***************************************************************************)
EXTENDS Integers, Sequences, FiniteSets, TLC

VARIABLES
    pc,                    \* the input() call the session is blocked on
    ruta_busqueda,         \* self.ruta_busqueda
    carpetas_encontradas,  \* self.carpetas_encontradas
    incluir_subcarpetas,   \* local of ejecutar
    carpetas,              \* local of ejecutar: result of buscar_carpetas
    opcion,                \* local of ejecutar: chosen menu option (0: none yet)
    fecha_inicio,          \* filtrar_por_opcion: first date of option 4 / start of option 5
    fecha_ref,             \* filtrar_por_opcion: fecha_ref (1-3) or fecha_fin (4)
    dias,                  \* filtrar_por_opcion: accepted day count (0: none yet)
    fecha_limite,          \* filtrar_por_opcion: date.today() read for option 5
    carpetas_filtradas,    \* local of ejecutar: result of filtrar_por_opcion
    comparadas,            \* number of entries the last filter compared with its criterion
    pantalla,              \* numbered listing printed in this iteration
    informe,               \* report file written in this iteration
    salida,                \* messages printed by the last step
    entrada,               \* the answer consumed by the last step
    fecha_str,             \* argument of the last validar_fecha call
    fecha,                 \* result of the last validar_fecha call
    fs_visto               \* what the file system answered to the traversal of the last step

vars == <<pc, ruta_busqueda, carpetas_encontradas, incluir_subcarpetas, carpetas,
          opcion, fecha_inicio, fecha_ref, dias, fecha_limite, carpetas_filtradas,
          comparadas, pantalla, informe, salida, entrada, fecha_str, fecha, fs_visto>>

(***************************************************************************)
(* datetime.date                                                           *)
(***************************************************************************)
MINYEAR == 1
MAXYEAR == 9999
MaxTimedeltaDays == 999999999

None == [none |-> TRUE]

D(dd, mm, aa) == [a |-> aa, m |-> mm, d |-> dd]

is_leap(y) == y % 4 = 0 /\ (y % 100 # 0 \/ y % 400 = 0)

days_in_month(y, m) ==
    IF m = 2 THEN (IF is_leap(y) THEN 29 ELSE 28)
    ELSE IF m \in {4, 6, 9, 11} THEN 30 ELSE 31

\* date(año, mes, dia): the date, or ValueError (modelled as None by the caller)
date_ok(y, m, d) ==
    /\ MINYEAR <= y /\ y <= MAXYEAR
    /\ 1 <= m /\ m <= 12
    /\ 1 <= d /\ d <= days_in_month(y, m)

days_before_year(y) ==
    (y - 1) * 365 + ((y - 1) \div 4) - ((y - 1) \div 100) + ((y - 1) \div 400)

RECURSIVE days_before_month(_, _)
days_before_month(y, m) ==
    IF m = 1 THEN 0 ELSE days_before_month(y, m - 1) + days_in_month(y, m - 1)

toordinal(f) == days_before_year(f.a) + days_before_month(f.a, f.m) + f.d

\* date.__lt__ / __le__: comparison by (year, month, day)
date_lt(x, y) ==
    \/ x.a < y.a
    \/ x.a = y.a /\ x.m < y.m
    \/ x.a = y.a /\ x.m = y.m /\ x.d < y.d

date_le(x, y) == x = y \/ date_lt(x, y)

(***************************************************************************)
(* Strings of the date prompt                                              *)
(***************************************************************************)
Digitos == <<"0", "1", "2", "3", "4", "5", "6", "7", "8", "9">>

EsDigito(c) == \E i \in 1..10 : Digitos[i] = c

ValorDigito(c) == (CHOOSE i \in 1..10 : Digitos[i] = c) - 1

Espacios == {" ", "\n"}

\* int() of a string of digits
RECURSIVE int_de(_)
int_de(s) ==
    IF s = <<>> THEN 0
    ELSE 10 * int_de(SubSeq(s, 1, Len(s) - 1)) + ValorDigito(s[Len(s)])

\* str.strip()
RECURSIVE strip(_)
strip(s) ==
    IF s = <<>> THEN s
    ELSE IF s[1] \in Espacios THEN strip(Tail(s))
    ELSE IF s[Len(s)] \in Espacios THEN strip(SubSeq(s, 1, Len(s) - 1))
    ELSE s

\* re.match(r'^(\d{2})/(\d{2})/(\d{4})$', s): '$' matches at the end of the
\* string and also just before a newline that ends the string
patron_match(s) ==
    /\ \/ Len(s) = 10
       \/ Len(s) = 11 /\ s[11] = "\n"
    /\ \A i \in {1, 2, 4, 5, 7, 8, 9, 10} : EsDigito(s[i])
    /\ s[3] = "/" /\ s[6] = "/"

validar_fecha(s) ==
    IF ~patron_match(s) THEN None
    ELSE LET dia == int_de(SubSeq(s, 1, 2))
             mes == int_de(SubSeq(s, 4, 5))
             anio == int_de(SubSeq(s, 7, 10))
         IN IF date_ok(anio, mes, dia) THEN D(dia, mes, anio) ELSE None

\* "%02d" / "%04d" and strftime("%d/%m/%Y")
Dos(n) == <<Digitos[((n \div 10) % 10) + 1], Digitos[(n % 10) + 1]>>

Cuatro(n) == Dos(n \div 100) \o Dos(n % 100)

strftime(f) == Dos(f.d) \o <<"/">> \o Dos(f.m) \o <<"/">> \o Cuatro(f.a)


_DI400Y == 146097
_DI100Y == 36524
_DI4Y == 1461

\* date.fromordinal(n), 1 <= n (datetime._ord2ymd)
fromordinal(n) ==
    LET n0 == n - 1
        n400 == n0 \div _DI400Y
        r400 == n0 % _DI400Y
        n100 == r400 \div _DI100Y
        r100 == r400 % _DI100Y
        n4 == r100 \div _DI4Y
        r4 == r100 % _DI4Y
        n1 == r4 \div 365
        r1 == r4 % 365
        year == n400 * 400 + 1 + n100 * 100 + n4 * 4 + n1
        month == CHOOSE m \in 1..12 :
                     /\ days_before_month(year, m) <= r1
                     /\ r1 < days_before_month(year, m) + days_in_month(year, m)
    IN IF n1 = 4 \/ n100 = 4 THEN D(31, 12, year - 1)
       ELSE D(r1 - days_before_month(year, month) + 1, month, year)

\* date - timedelta(days=n): the date, or OverflowError
OverflowError == [error |-> "OverflowError"]

restar_dias(f, n) ==
    IF n > MaxTimedeltaDays \/ n < -MaxTimedeltaDays THEN OverflowError
    ELSE IF toordinal(f) - n < 1 \/ toordinal(f) - n > toordinal(D(31, 12, MAXYEAR))
         THEN OverflowError
         ELSE fromordinal(toordinal(f) - n)

(***************************************************************************)
(* The file system the session looks at                                    *)
(***************************************************************************)
CWD == "/r"

Directorios == {"/r", "/r/a", "/r/b", "/r/a/c"}

Archivos == {"/r/f.txt"}

\* os.scandir order of the sub-directories of a directory
Hijos(dir) ==
    CASE dir = "/r" -> <<"a", "b">>
      [] dir = "/r/a" -> <<"c">>
      [] OTHER -> <<>>

\* os.path.join
Join(root, nombre) ==
    CASE root = "/r" /\ nombre = "a" -> "/r/a"
      [] root = "/r" /\ nombre = "b" -> "/r/b"
      [] root = "/r/a" /\ nombre = "c" -> "/r/a/c"
      [] OTHER -> root

Fechas == {D(1, 1, 2024), D(15, 6, 2024), D(1, 1, 2025)}

Hoys == {D(1, 1, 2025), D(2, 1, 2025)}

OSError == [error |-> "OSError"]

\* what the file system answers: the modification date of each sub-directory
\* (or an OSError on reading it) and whether a directory can be listed
MTimes(dir) ==
    CASE dir = "/r/a" -> {D(1, 1, 2024), D(1, 1, 2025), OSError}
      [] dir = "/r/b" -> {D(15, 6, 2024), D(1, 1, 2024)}
      [] OTHER -> {D(1, 1, 2025), D(1, 1, 2024), OSError}

FSs == {fs \in [mtime : [{"/r/a", "/r/b", "/r/a/c"} -> Fechas \cup {OSError}],
                listable : [{"/r", "/r/a"} -> BOOLEAN]] :
            \A dir \in DOMAIN fs.mtime : fs.mtime[dir] \in MTimes(dir)}

Listable(fs, dir) == IF dir \in DOMAIN fs.listable THEN fs.listable[dir] ELSE TRUE

obtener_fecha_modificacion(fs, ruta_carpeta) ==
    IF fs.mtime[ruta_carpeta] = OSError THEN None ELSE fs.mtime[ruta_carpeta]

\* the entries appended for the sub-directories dirs[k..] of root
RECURSIVE Recoger(_, _, _, _)
Recoger(fs, root, dirs, k) ==
    IF k > Len(dirs) THEN <<>>
    ELSE LET ruta_completa == Join(root, dirs[k])
             fecha_mod == obtener_fecha_modificacion(fs, ruta_completa)
         IN (IF fecha_mod = None THEN <<>>
             ELSE <<[ruta |-> ruta_completa, nombre |-> dirs[k],
                     fecha_modificacion |-> fecha_mod]>>)
            \o Recoger(fs, root, dirs, k + 1)

\* for root, dirs, files in os.walk(top): a directory that cannot be listed
\* yields nothing and raises nothing (os.walk is called without onerror)
RECURSIVE Walk(_, _)
RECURSIVE WalkHijos(_, _, _)
Walk(fs, top) ==
    IF ~Listable(fs, top) THEN <<>>
    ELSE Recoger(fs, top, Hijos(top), 1) \o WalkHijos(fs, top, 1)

WalkHijos(fs, top, k) ==
    IF k > Len(Hijos(top)) THEN <<>>
    ELSE Walk(fs, Join(top, Hijos(top)[k])) \o WalkHijos(fs, top, k + 1)

\* buscar_carpetas: the list returned and the messages printed
buscar_carpetas(fs, ruta, incluir) ==
    IF incluir
    THEN [carpetas |-> Walk(fs, ruta), salida |-> <<>>]
    ELSE IF ~Listable(fs, ruta)
         THEN [carpetas |-> <<>>, salida |-> <<"sin_permisos">>]
         ELSE [carpetas |-> Recoger(fs, ruta, Hijos(ruta), 1), salida |-> <<>>]

(***************************************************************************)
(* Filters of filtrar_por_opcion                                           *)
(***************************************************************************)
\* despues_de with >= for >
despues_de_mut(c, ref) == date_le(ref, c.fecha_modificacion)

despues_de(c, ref) == date_lt(ref, c.fecha_modificacion)

antes_de(c, ref) == date_lt(c.fecha_modificacion, ref)

en_fecha(c, ref) == c.fecha_modificacion = ref

en_rango(c, inicio, fin) ==
    date_le(inicio, c.fecha_modificacion) /\ date_le(c.fecha_modificacion, fin)

\* rango_invalido without the check
rango_invalido_mut(inicio, fin) == FALSE

rango_invalido(inicio, fin) == date_lt(fin, inicio)

desde(c, inicio) == date_le(inicio, c.fecha_modificacion)

dias_valido(n) == n > 0

\* options 1-3: the list comprehension of the option
filtrar_fecha(cs, op, ref) ==
    LET Cumple(c) == CASE op = 1 -> despues_de(c, ref)
                       [] op = 2 -> antes_de(c, ref)
                       [] OTHER -> en_fecha(c, ref)
    IN SelectSeq(cs, Cumple)

\* option 4: the list returned, the messages printed, the entries compared
filtrar_rango(cs, inicio, fin) ==
    IF rango_invalido(inicio, fin)
    THEN [filtradas |-> <<>>, salida |-> <<"rango_invalido">>, comparadas |-> 0]
    ELSE LET Cumple(c) == en_rango(c, inicio, fin)
         IN [filtradas |-> SelectSeq(cs, Cumple), salida |-> <<>>,
             comparadas |-> Len(cs)]

\* option 5 once fecha_inicio is computed
filtrar_dias(cs, inicio) ==
    LET Cumple(c) == desde(c, inicio)
    IN SelectSeq(cs, Cumple)

(***************************************************************************)
(* Listing                                                                 *)
(***************************************************************************)
\* sorted(..., key=lambda x: x['fecha_modificacion']): stable
RECURSIVE Insertar(_, _)
Insertar(s, c) ==
    IF s = <<>> THEN <<c>>
    ELSE IF date_lt(c.fecha_modificacion, s[Len(s)].fecha_modificacion)
         THEN Insertar(SubSeq(s, 1, Len(s) - 1), c) \o <<s[Len(s)]>>
         ELSE s \o <<c>>

\* sorted left out
sorted_mut(cs) == cs

RECURSIVE sorted(_)
sorted(cs) ==
    IF cs = <<>> THEN <<>>
    ELSE Insertar(sorted(SubSeq(cs, 1, Len(cs) - 1)), cs[Len(cs)])

\* for i, carpeta in enumerate(carpetas_ordenadas, 1): "{i:3d}. [{fecha_str}] {ruta}"
Listado(cs) ==
    LET ordenadas == sorted(cs)
    IN [i \in 1..Len(ordenadas) |->
            [num |-> i,
             fecha |-> strftime(ordenadas[i].fecha_modificacion),
             ruta |-> ordenadas[i].ruta]]

\* mostrar_resultados: what is printed and the new self.carpetas_encontradas
mostrar_resultados(cf, encontradas) ==
    IF cf = <<>>
    THEN [pantalla |-> <<>>, salida |-> <<"total", "sin_coincidencias">>,
          encontradas |-> encontradas]
    ELSE [pantalla |-> Listado(cf), salida |-> <<"total", "listado">>,
          encontradas |-> cf]

\* guardar_resultados: is the save prompt shown
pregunta_guardar(encontradas) == encontradas # <<>>

NoInforme == [escrito |-> FALSE]

\* guardar_resultados: the file written
escribir_informe(ruta, encontradas) ==
    [escrito |-> TRUE, ruta |-> ruta, total |-> Len(encontradas),
     lineas |-> Listado(encontradas)]


(***************************************************************************)
(* Answers typed at the prompts                                            *)
(***************************************************************************)
HOME == "/r/a"

RutasEntrada == {"", "~", "/r", "/nada", "/r/f.txt"}

\* os.path.expanduser(os.path.expandvars(ruta))
expandir(ruta) == IF ruta = "~" THEN HOME ELSE ruta

Respuestas == {"s", "S", " s ", "si", "sí", "Y", "yes", "n", "NO", "", "x"}

\* str.lower().strip() on the answers above
lower_strip(r) ==
    CASE r \in {"S", " s "} -> "s"
      [] r = "Y" -> "y"
      [] r = "NO" -> "no"
      [] OTHER -> r

\* afirmativo without the accented form
afirmativo_mut(r) == r \in {"s", "si", "y", "yes"}

afirmativo(r) == r \in {"s", "sí", "si", "y", "yes"}

\* preguntar_incluir_subcarpetas
incluir_de(r) == r # "n" /\ r # "no"

\* a line typed at a numeric prompt: int() gives val, or raises ValueError
Num(n) == [num |-> TRUE, val |-> n]

NoNum == [num |-> FALSE, val |-> 0]

MaxOpcion == 6

MaxDias == 2

EntradasMenu == {Num(n) : n \in 0..MaxOpcion} \cup {NoNum}

EntradasDias ==
    {Num(n) : n \in (-1..MaxDias) \cup {200, 201, MaxTimedeltaDays + 1}}
    \cup {Num(toordinal(h) - 1) : h \in Hoys} \cup {Num(toordinal(h)) : h \in Hoys}
    \cup {NoNum}

EntradasFecha ==
    {strftime(f) : f \in Fechas}
    \cup {<<" ">> \o strftime(D(1, 1, 2024)) \o <<"\n">>,
          strftime(D(31, 2, 2024)),
          <<"1", "/", "1", "/", "2", "0", "2", "4">>,
          <<>>}

Pendiente == [pendiente |-> TRUE]

NoFS == [ninguno |-> TRUE]

(***************************************************************************)
(* The session: ejecutar                                                   *)
(***************************************************************************)
Init ==
    /\ pc = "ruta"
    /\ ruta_busqueda = ""
    /\ carpetas_encontradas = <<>>
    /\ incluir_subcarpetas = TRUE
    /\ carpetas = <<>>
    /\ opcion = 0
    /\ fecha_inicio = None
    /\ fecha_ref = None
    /\ dias = 0
    /\ fecha_limite = None
    /\ carpetas_filtradas = <<>>
    /\ comparadas = 0
    /\ pantalla = <<>>
    /\ informe = NoInforme
    /\ salida = <<"titulo">>
    /\ entrada = ""
    /\ fecha_str = <<>>
    /\ fecha = Pendiente
    /\ fs_visto = NoFS

\* top of the while loop: limpiar_pantalla, mostrar_titulo; the locals of the
\* iteration that ended are dead
NuevaIteracion ==
    /\ pc' = "ruta"
    /\ incluir_subcarpetas' = TRUE
    /\ carpetas' = <<>>
    /\ opcion' = 0
    /\ fecha_inicio' = None
    /\ fecha_ref' = None
    /\ dias' = 0
    /\ fecha_limite' = None
    /\ carpetas_filtradas' = <<>>
    /\ comparadas' = 0
    /\ pantalla' = <<>>
    /\ informe' = NoInforme
    /\ salida' = <<"titulo">>
    /\ fecha_str' = <<>>
    /\ fecha' = Pendiente
    /\ UNCHANGED <<ruta_busqueda, carpetas_encontradas>>

\* solicitar_ruta: one pass of its loop
SolicitarRuta(r) ==
    /\ pc = "ruta"
    /\ entrada' = r
    /\ fs_visto' = NoFS
    /\ LET ruta == expandir(IF r = "" THEN CWD ELSE r)
       IN IF ruta \in Directorios
          THEN /\ ruta_busqueda' = ruta
               /\ salida' = <<"ruta_valida">>
               /\ pc' = "subcarpetas"
          ELSE /\ salida' = <<"ruta_invalida">>
               /\ UNCHANGED <<ruta_busqueda, pc>>
    /\ UNCHANGED <<carpetas_encontradas, incluir_subcarpetas, carpetas, opcion,
                   fecha_inicio, fecha_ref, dias, fecha_limite, carpetas_filtradas,
                   comparadas, pantalla, informe, fecha_str, fecha>>

\* preguntar_incluir_subcarpetas, buscar_carpetas, and either the
\* "no directories" branch or the menu of mostrar_menu_opciones
PreguntarSubcarpetas(r, fs) ==
    /\ pc = "subcarpetas"
    /\ entrada' = r
    /\ fs_visto' = fs
    /\ LET incluir == incluir_de(lower_strip(r))
           res == buscar_carpetas(fs, ruta_busqueda, incluir)
       IN /\ incluir_subcarpetas' = incluir
          /\ carpetas' = res.carpetas
          /\ IF res.carpetas = <<>>
             THEN /\ salida' = <<"buscando">> \o res.salida \o <<"no_carpetas">>
                  /\ pc' = "enter"
             ELSE /\ salida' = <<"buscando">> \o res.salida \o <<"encontradas", "menu">>
                  /\ pc' = "menu"
    /\ UNCHANGED <<ruta_busqueda, carpetas_encontradas, opcion, fecha_inicio,
                   fecha_ref, dias, fecha_limite, carpetas_filtradas, comparadas,
                   pantalla, informe, fecha_str, fecha>>

\* input("Presione Enter para continuar..."); continue
PresionarEnter ==
    /\ pc = "enter"
    /\ entrada' = ""
    /\ fs_visto' = NoFS
    /\ NuevaIteracion

\* mostrar_menu_opciones: one pass of its loop
SeleccionarOpcion(t) ==
    /\ pc = "menu"
    /\ entrada' = t
    /\ fs_visto' = NoFS
    /\ IF ~t.num
       THEN /\ salida' = <<"numero_invalido">>
            /\ UNCHANGED <<opcion, pc>>
       ELSE IF 1 <= t.val /\ t.val <= 5
            THEN /\ opcion' = t.val
                 /\ salida' = <<>>
                 /\ pc' = IF t.val = 5 THEN "dias" ELSE "fecha"
            ELSE /\ salida' = <<"opcion_invalida">>
                 /\ UNCHANGED <<opcion, pc>>
    /\ UNCHANGED <<ruta_busqueda, carpetas_encontradas, incluir_subcarpetas, carpetas,
                   fecha_inicio, fecha_ref, dias, fecha_limite, carpetas_filtradas,
                   comparadas, pantalla, informe, fecha_str, fecha>>

\* the rest of ejecutar once filtrar_por_opcion has returned cf:
\* mostrar_resultados, then guardar_resultados up to its prompt
Resultados(cf, msgs) ==
    LET res == mostrar_resultados(cf, carpetas_encontradas)
    IN /\ carpetas_filtradas' = cf
       /\ pantalla' = res.pantalla
       /\ carpetas_encontradas' = res.encontradas
       /\ salida' = msgs \o res.salida
       /\ pc' = IF pregunta_guardar(res.encontradas) THEN "guardar" ELSE "continuar"

\* solicitar_fecha: one pass of its loop; with the last date of the option,
\* the filter of options 1-4 and the results
IngresarFecha(str) ==
    /\ pc = "fecha"
    /\ entrada' = str
    /\ fs_visto' = NoFS
    /\ LET s == strip(str)
           f == validar_fecha(s)
       IN /\ fecha_str' = s
          /\ fecha' = f
          /\ IF f = None
             THEN /\ salida' = <<"fecha_invalida">>
                  /\ UNCHANGED <<pc, fecha_inicio, fecha_ref, carpetas_filtradas,
                                 comparadas, pantalla, carpetas_encontradas>>
             ELSE IF opcion \in 1..3
             THEN /\ fecha_ref' = f
                  /\ comparadas' = Len(carpetas)
                  /\ Resultados(filtrar_fecha(carpetas, opcion, f), <<>>)
                  /\ UNCHANGED fecha_inicio
             ELSE IF fecha_inicio = None
             THEN /\ fecha_inicio' = f
                  /\ salida' = <<>>
                  /\ UNCHANGED <<pc, fecha_ref, carpetas_filtradas, comparadas,
                                 pantalla, carpetas_encontradas>>
             ELSE LET res == filtrar_rango(carpetas, fecha_inicio, f)
                  IN /\ fecha_ref' = f
                     /\ comparadas' = res.comparadas
                     /\ Resultados(res.filtradas, res.salida)
                     /\ UNCHANGED fecha_inicio
    /\ UNCHANGED <<ruta_busqueda, incluir_subcarpetas, carpetas, opcion, dias,
                   fecha_limite, informe>>

\* option 5: one pass of the day-count loop; with a positive count,
\* date.today(), the subtraction, the filter and the results.  An
\* OverflowError of the subtraction leaves ejecutar and main() exits with 1
IngresarDias(t, hoy) ==
    /\ pc = "dias"
    /\ entrada' = t
    /\ fs_visto' = NoFS
    /\ IF ~t.num
       THEN /\ salida' = <<"numero_invalido">>
            /\ UNCHANGED <<pc, dias, fecha_limite, fecha_inicio, carpetas_filtradas,
                           comparadas, pantalla, carpetas_encontradas>>
       ELSE IF ~dias_valido(t.val)
       THEN /\ salida' = <<"dias_no_positivos">>
            /\ UNCHANGED <<pc, dias, fecha_limite, fecha_inicio, carpetas_filtradas,
                           comparadas, pantalla, carpetas_encontradas>>
       ELSE LET inicio == restar_dias(hoy, t.val)
            IN /\ dias' = t.val
               /\ fecha_limite' = hoy
               /\ IF inicio = OverflowError
                  THEN /\ pc' = "error"
                       /\ salida' = <<"error_inesperado">>
                       /\ UNCHANGED <<fecha_inicio, carpetas_filtradas, comparadas,
                                      pantalla, carpetas_encontradas>>
                  ELSE /\ fecha_inicio' = inicio
                       /\ comparadas' = Len(carpetas)
                       /\ Resultados(filtrar_dias(carpetas, inicio), <<>>)
    /\ UNCHANGED <<ruta_busqueda, incluir_subcarpetas, carpetas, opcion, fecha_ref,
                   informe, fecha_str, fecha>>

\* guardar_resultados from its prompt on; ok: does writing the file succeed
ResponderGuardar(r, ok) ==
    /\ pc = "guardar"
    /\ entrada' = r
    /\ fs_visto' = NoFS
    /\ IF afirmativo(lower_strip(r))
       THEN IF ok
            THEN /\ informe' = escribir_informe(ruta_busqueda, carpetas_encontradas)
                 /\ salida' = <<"guardado">>
            ELSE /\ salida' = <<"error_guardar">>
                 /\ UNCHANGED informe
       ELSE /\ salida' = <<>>
            /\ UNCHANGED informe
    /\ pc' = "continuar"
    /\ UNCHANGED <<ruta_busqueda, carpetas_encontradas, incluir_subcarpetas, carpetas,
                   opcion, fecha_inicio, fecha_ref, dias, fecha_limite,
                   carpetas_filtradas, comparadas, pantalla, fecha_str, fecha>>

\* "¿Desea realizar otra búsqueda?"
ResponderContinuar(r) ==
    /\ pc = "continuar"
    /\ entrada' = r
    /\ fs_visto' = NoFS
    /\ IF afirmativo(lower_strip(r))
       THEN NuevaIteracion
       ELSE /\ pc' = "fin"
            /\ salida' = <<"gracias">>
            /\ UNCHANGED <<ruta_busqueda, carpetas_encontradas, incluir_subcarpetas,
                           carpetas, opcion, fecha_inicio, fecha_ref, dias,
                           fecha_limite, carpetas_filtradas, comparadas, pantalla,
                           informe, fecha_str, fecha>>

Next ==
    \/ \E r \in RutasEntrada : SolicitarRuta(r)
    \/ \E r \in Respuestas, fs \in FSs : PreguntarSubcarpetas(r, fs)
    \/ PresionarEnter
    \/ \E t \in EntradasMenu : SeleccionarOpcion(t)
    \/ \E str \in EntradasFecha : IngresarFecha(str)
    \/ \E t \in EntradasDias, hoy \in Hoys : IngresarDias(t, hoy)
    \/ \E r \in Respuestas, ok \in BOOLEAN : ResponderGuardar(r, ok)
    \/ \E r \in Respuestas : ResponderContinuar(r)

Spec == Init /\ [][Next]_vars


(***************************************************************************)
(* validar_fecha on its own: applied to strings that solicitar_fecha did   *)
(* not strip                                                               *)
(***************************************************************************)
DiasPrueba == {0, 1, 15, 28, 29, 30, 31, 32}

MesesPrueba == {0, 1, 2, 4, 6, 12, 13}

AniosPrueba == {0, 1, 1900, 2000, 2023, 2024, 9999}

Bases == {Dos(d) \o <<"/">> \o Dos(m) \o <<"/">> \o Cuatro(y) :
              d \in DiasPrueba, m \in MesesPrueba, y \in AniosPrueba}

Cadenas ==
    Bases
    \cup {b \o <<"\n">> : b \in Bases}
    \cup {b \o <<"5">> : b \in Bases}
    \cup {<<" ">> \o b : b \in Bases}
    \cup {Tail(b) : b \in Bases}
    \cup {[b EXCEPT ![3] = "-", ![6] = "-"] : b \in Bases}
    \cup {[b EXCEPT ![1] = "a"] : b \in Bases}
    \cup {<<>>}

InitValidar ==
    /\ pc = "validar"
    /\ ruta_busqueda = ""
    /\ carpetas_encontradas = <<>>
    /\ incluir_subcarpetas = TRUE
    /\ carpetas = <<>>
    /\ opcion = 0
    /\ fecha_inicio = None
    /\ fecha_ref = None
    /\ dias = 0
    /\ fecha_limite = None
    /\ carpetas_filtradas = <<>>
    /\ comparadas = 0
    /\ pantalla = <<>>
    /\ informe = NoInforme
    /\ salida = <<>>
    /\ entrada = ""
    /\ fecha_str \in Cadenas
    /\ fecha = Pendiente
    /\ fs_visto = NoFS

SinCambioSesion ==
    UNCHANGED <<pc, ruta_busqueda, carpetas_encontradas, incluir_subcarpetas, carpetas,
                opcion, fecha_inicio, fecha_ref, dias, fecha_limite,
                carpetas_filtradas, comparadas, pantalla, informe, salida, entrada,
                fs_visto>>

Validar ==
    /\ pc = "validar"
    /\ fecha = Pendiente
    /\ fecha' = validar_fecha(fecha_str)
    /\ UNCHANGED fecha_str
    /\ SinCambioSesion

OtraCadena ==
    /\ pc = "validar"
    /\ fecha # Pendiente
    /\ fecha_str' \in Cadenas
    /\ fecha' = Pendiente
    /\ SinCambioSesion

NextValidar == Validar \/ OtraCadena

SpecValidar == InitValidar /\ [][NextValidar]_vars

(***************************************************************************)
(* Properties                                                              *)
(***************************************************************************)
Rango(s) == {s[i] : i \in DOMAIN s}

\* the session has run mostrar_resultados in this iteration
ConResultado == pc \in {"guardar", "continuar", "fin"}

Ord(f) == toordinal(f)

\* cf is made of exactly the entries of cs that satisfy P, in the order of cs
EsSeleccion(cf, cs, P(_)) ==
    LET idx == {i \in 1..Len(cs) : P(cs[i])}
    IN /\ Len(cf) = Cardinality(idx)
       /\ \A i \in idx : cf[Cardinality({j \in idx : j <= i})] = cs[i]

EntradaA == [ruta |-> "/r/a", nombre |-> "a", fecha_modificacion |-> D(1, 1, 2024)]

EntradaB == [ruta |-> "/r/b", nombre |-> "b", fecha_modificacion |-> D(15, 6, 2024)]

EntradaC == [ruta |-> "/r/a/c", nombre |-> "c", fecha_modificacion |-> D(1, 1, 2025)]

\* C1: after a filter of option 1, 2, 3 or 4 (4 with start <= end) the result
\* holds exactly the entries found whose date is after (1), before (2), equal
\* to (3) the reference date, or within [start, end] (4), and nothing else.
C1_FiltroExacto ==
    (ConResultado /\ opcion \in 1..4
       /\ (opcion = 4 => Ord(fecha_inicio) <= Ord(fecha_ref)))
    => LET Criterio(c) ==
               LET m == Ord(c.fecha_modificacion)
               IN CASE opcion = 1 -> m > Ord(fecha_ref)
                    [] opcion = 2 -> m < Ord(fecha_ref)
                    [] opcion = 3 -> m = Ord(fecha_ref)
                    [] OTHER -> Ord(fecha_inicio) <= m /\ m <= Ord(fecha_ref)
       IN EsSeleccion(carpetas_filtradas, carpetas, Criterio)

\* the example of the claim: a, b, c and "after 01/01/2024" give b, c
C1_Testigo ==
    /\ pc = "guardar"
    /\ opcion = 1
    /\ fecha_ref = D(1, 1, 2024)
    /\ carpetas = <<EntradaA, EntradaB, EntradaC>>
    /\ carpetas_filtradas = <<EntradaB, EntradaC>>

\* C2 (as claimed): the step that shows an empty filtered result prints the
\* "no matches" message and goes to the "another search?" prompt, not to the
\* save prompt, and no report is written while the result is empty.
C2_VacioSinGuardar ==
    [][/\ (pc \in {"fecha", "dias"} /\ pc' \in {"guardar", "continuar"}
             /\ carpetas_filtradas' = <<>>)
          => ("sin_coincidencias" \in Rango(salida') /\ pc' = "continuar")
       /\ (pc = "guardar" /\ carpetas_filtradas = <<>>) => informe' = NoInforme
      ]_vars

\* C3 (as claimed): a report written in this iteration names the root of this
\* iteration, counts the filtered result of this iteration and lists exactly
\* what the screen lists.
C3_InformeIgualPantalla ==
    informe.escrito
    => /\ informe.ruta = ruta_busqueda
       /\ informe.total = Len(carpetas_filtradas)
       /\ informe.lineas = pantalla

\* the answers (as typed) that the prompt takes as yes
EsAfirmativa(r) == r \in {"s", "S", " s ", "si", "sí", "Y", "yes"}

\* C4 (as claimed): once the traversal has run, a new iteration begins only
\* from the "another search?" prompt; there an answer outside the set ends
\* the loop with the farewell and an answer in the set starts an iteration.
C4_SiemprePregunta ==
    [][/\ (pc \in {"enter", "menu", "fecha", "dias", "guardar", "continuar"}
             /\ pc' = "ruta")
          => pc = "continuar"
       /\ pc = "continuar"
          => IF EsAfirmativa(entrada') THEN pc' = "ruta"
             ELSE pc' = "fin" /\ salida' = <<"gracias">>
      ]_vars

\* C4 (amended): a new iteration begins either from the "another search?"
\* prompt answered with one of the set, or, without that prompt, after a
\* traversal that found no directory; after a traversal that found one the
\* prompt is the only way; an answer outside the set ends the loop with the
\* farewell and an answer in the set starts an iteration.
C4_PreguntaSalvoSinCarpetas ==
    [][/\ (pc \in {"enter", "menu", "fecha", "dias", "guardar", "continuar"}
             /\ pc' = "ruta")
          => \/ pc = "continuar" /\ EsAfirmativa(entrada')
             \/ pc = "enter" /\ carpetas = <<>>
       /\ (pc \in {"menu", "fecha", "dias", "guardar", "continuar"}
             /\ carpetas # <<>> /\ pc' = "ruta")
          => pc = "continuar"
       /\ pc = "enter" => carpetas = <<>> /\ pc' = "ruta"
       /\ pc = "continuar"
          => IF EsAfirmativa(entrada') THEN pc' = "ruta"
             ELSE pc' = "fin" /\ salida' = <<"gracias">>
      ]_vars

\* an iteration with an empty filtered result stands at the prompt
C4_Testigo ==
    /\ pc = "continuar"
    /\ carpetas # <<>>
    /\ carpetas_filtradas = <<>>
    /\ salida = <<"total", "sin_coincidencias">>

\* C5: the step that takes the end date of option 4, when the start date is
\* later, prints the error, returns the empty list, compares no entry and
\* leaves the date prompt.
C5_RangoInvertido ==
    [][(pc = "fecha" /\ opcion = 4 /\ fecha_inicio # None /\ fecha' # None
          /\ Ord(fecha_inicio) > Ord(fecha'))
       => /\ "rango_invalido" \in Rango(salida')
          /\ carpetas_filtradas' = <<>>
          /\ comparadas' = 0
          /\ pc' \in {"guardar", "continuar"}
          /\ pantalla' = <<>>
      ]_vars

C5_Testigo ==
    /\ opcion = 4
    /\ pc \in {"guardar", "continuar"}
    /\ "rango_invalido" \in Rango(salida)
    /\ fecha_inicio = D(1, 1, 2025)
    /\ fecha_ref = D(1, 1, 2024)
    /\ Len(carpetas) = 3

\* L lists the entries of cf, one line each, by non-decreasing date, numbered
\* from 1 (the date of a line is read back from its dd/mm/yyyy text)
EsListadoDe(L, cf) ==
    /\ Len(L) = Len(cf)
    /\ \A i \in 1..Len(L) : L[i].num = i
    /\ \A i \in 1..Len(L) :
           \E j \in 1..Len(cf) :
               /\ cf[j].ruta = L[i].ruta
               /\ validar_fecha(L[i].fecha) = cf[j].fecha_modificacion
    /\ \A i, k \in 1..Len(L) : i # k => L[i].ruta # L[k].ruta
    /\ \A i, k \in 1..Len(L) :
           i < k => Ord(validar_fecha(L[i].fecha)) <= Ord(validar_fecha(L[k].fecha))

\* C6: with a non-empty filtered result, the listing on screen and the
\* listing of the report are each a permutation of the result by
\* non-decreasing date, numbered from 1.
C6_ListadoOrdenado ==
    (ConResultado /\ carpetas_filtradas # <<>>)
    => /\ EsListadoDe(pantalla, carpetas_filtradas)
       /\ informe.escrito => EsListadoDe(informe.lineas, carpetas_filtradas)

\* a report of a result that the traversal did not deliver in date order
C6_Testigo ==
    /\ informe.escrito
    /\ Len(carpetas_filtradas) = 3
    /\ \E i \in 1..2 : date_lt(carpetas_filtradas[i + 1].fecha_modificacion,
                               carpetas_filtradas[i].fecha_modificacion)

\* C7 (as claimed): at the day-count prompt a count that is not a positive
\* integer is asked again; every positive N gives the result made of exactly
\* the entries dated on or after today - N days.
C7_UltimosDias ==
    [][pc = "dias"
       => IF ~entrada'.num \/ entrada'.val <= 0
          THEN pc' = "dias" /\ UNCHANGED <<carpetas_filtradas, carpetas_encontradas>>
          ELSE LET Criterio(c) ==
                       Ord(c.fecha_modificacion) >= Ord(fecha_limite') - entrada'.val
               IN /\ pc' \in {"guardar", "continuar"}
                  /\ EsSeleccion(carpetas_filtradas', carpetas, Criterio)
      ]_vars

\* real calendar dates, by the lengths of the months
LargoMes == <<31, 28, 31, 30, 31, 30, 31, 31, 30, 31, 30, 31>>

Bisiesto(y) == (y % 4 = 0 /\ y % 100 # 0) \/ y % 400 = 0

FechaReal(d, m, y) ==
    /\ y \in 1..9999
    /\ m \in 1..12
    /\ d >= 1
    /\ d <= LargoMes[m] + (IF m = 2 /\ Bisiesto(y) THEN 1 ELSE 0)

\* the form dd/mm/yyyy: two digits, two digits, four digits
FormaFecha(s) ==
    /\ Len(s) = 10
    /\ \A i \in {1, 2, 4, 5, 7, 8, 9, 10} :
           s[i] \in {"0", "1", "2", "3", "4", "5", "6", "7", "8", "9"}
    /\ s[3] = "/" /\ s[6] = "/"

\* C8 (as claimed): validar_fecha returns the date named by a string of the
\* form dd/mm/yyyy that names a real date, and None for every other string.
C8_ValidarFecha ==
    (pc = "validar" /\ fecha # Pendiente)
    => IF FormaFecha(fecha_str)
       THEN LET d == 10 * ValorDigito(fecha_str[1]) + ValorDigito(fecha_str[2])
                m == 10 * ValorDigito(fecha_str[4]) + ValorDigito(fecha_str[5])
                y == 1000 * ValorDigito(fecha_str[7]) + 100 * ValorDigito(fecha_str[8])
                       + 10 * ValorDigito(fecha_str[9]) + ValorDigito(fecha_str[10])
            IN IF FechaReal(d, m, y) THEN fecha = D(d, m, y) ELSE fecha = None
       ELSE fecha = None

\* the error messages of the four prompts
MensajesError ==
    {"ruta_invalida", "numero_invalido", "opcion_invalida", "fecha_invalida",
     "dias_no_positivos"}

\* C9 (as claimed): no answer at the path, menu, date or day-count prompt
\* ends the session with an error; an answer that keeps the session at the
\* prompt, other than the accepted start date of option 4, printed an error
\* and changed neither the search root nor the result list.
C9_EntradaRecuperable ==
    [][(pc \in {"ruta", "menu", "fecha", "dias"})
       => (/\ pc' # "error"
           /\ (pc' = pc /\ ~(pc = "fecha" /\ fecha' # None))
              => (/\ Rango(salida') \cap MensajesError # {}
                  /\ ruta_busqueda' = ruta_busqueda
                  /\ carpetas_encontradas' = carpetas_encontradas
                  /\ carpetas' = carpetas
                  /\ carpetas_filtradas' = carpetas_filtradas))
      ]_vars

\* C10 (as claimed): the traversal skips a directory whose modification time
\* cannot be read and goes on; when the root cannot be listed it prints the
\* access message and returns no directory.
C10_Recorrido ==
    (pc \in {"menu", "enter"} /\ fs_visto # NoFS)
    => IF ~fs_visto.listable[ruta_busqueda]
       THEN carpetas = <<>> /\ "sin_permisos" \in Rango(salida)
       ELSE /\ "sin_permisos" \notin Rango(salida)
            /\ \A k \in 1..Len(Hijos(ruta_busqueda)) :
                   LET h == Join(ruta_busqueda, Hijos(ruta_busqueda)[k])
                   IN (fs_visto.mtime[h] # OSError)
                      <=> (\E i \in 1..Len(carpetas) :
                               /\ carpetas[i].ruta = h
                               /\ carpetas[i].fecha_modificacion = fs_visto.mtime[h])

====
